---------------------------- MODULE Spec2Model ----------------------------
(***************************************************************************)
(* Model of src/app.py: the single Flask request handler index(), which    *)
(* filters the preloaded CSV rows by disease text, optionally enriches     *)
(* each match with a Mapbox driving route, and derives the map centre.     *)
(*                                                                         *)
(* Text that the code inspects character by character (the search term,    *)
(* the disease column, the submitted coordinates) is a sequence of         *)
(* one-character strings.  Text that the code only builds (the travel      *)
(* time / distance texts) is a TLA+ string.  Python values of mixed type   *)
(* are tagged records: [t |-> "none"], [t |-> "num", v |-> <<n, d>>],      *)
(* [t |-> "str", v |-> s], [t |-> "list", v |-> seq], [t |-> "dict", ...]. *)
(* Numbers are exact rationals <<numerator, denominator>>.                 *)
(***************************************************************************)
EXTENDS Integers, Sequences, FiniteSets, TLC

VARIABLES csv_data_df, pc, method, form, search_disease, user_lat, user_lon,
          filtered_df, found_locations, map_center, map_zoom, calls, outcomes

vars == <<csv_data_df, pc, method, form, search_disease, user_lat, user_lon,
          filtered_df, found_locations, map_center, map_zoom, calls, outcomes>>

(* ------------------------------ bounds --------------------------------- *)

\* Largest number of rows in the loaded dataset.
MaxRows == 2

\* Durations of the formatting specification are multiples of
\* 1/TicksPerSecond seconds, from 0 to MaxDurationTicks ticks.
TicksPerSecond == 4

MaxDurationTicks == 29300

(* ------------------------- Python values ------------------------------- *)

NoneVal == [t |-> "none"]

Num(r) == [t |-> "num", v |-> r]

Str(s) == [t |-> "str", v |-> s]

List(s) == [t |-> "list", v |-> s]

Dict(d) == [t |-> "dict", v |-> d]

IsNone(x) == x.t = "none"

\* dict.get(key, default)
Get(d, k, default) == IF k \in DOMAIN d.v THEN d.v[k] ELSE default

\* Python truthiness of a value of the decoded JSON body.
Truthy(x) ==
  CASE x.t = "none" -> FALSE
    [] x.t = "list" -> x.v # <<>>
    [] x.t = "str"  -> x.v # ""
    [] x.t = "dict" -> DOMAIN x.v # {}
    [] OTHER        -> TRUE

\* str(x) as an f-string renders it, for the values that reach one.
PyStr(x) == IF x.t = "str" THEN x.v ELSE "None"

(* --------------------------- rationals --------------------------------- *)

Abs(n) == IF n < 0 THEN -n ELSE n

RECURSIVE GCD(_, _)
GCD(a, b) == IF b = 0 THEN a ELSE GCD(b, a % b)

\* n/d in lowest terms, d > 0.
Rat(n, d) == LET g == GCD(Abs(n), d) IN <<n \div g, d \div g>>

RatAdd(a, b) == Rat(a[1] * b[2] + b[1] * a[2], a[2] * b[2])

RatDivInt(a, n) == Rat(a[1], a[2] * n)

RECURSIVE RatSum(_)
RatSum(s) == IF s = <<>> THEN <<0, 1>> ELSE RatAdd(s[1], RatSum(Tail(s)))

\* sum(xs) / len(xs), also Series.mean()
Mean(s) == RatDivInt(RatSum(s), Len(s))

(* ------------------------ character text ------------------------------- *)

UpperLetters == <<"A","B","C","D","E","F","G","H","I","J","K","L","M",
                  "N","O","P","Q","R","S","T","U","V","W","X","Y","Z">>

LowerLetters == <<"a","b","c","d","e","f","g","h","i","j","k","l","m",
                  "n","o","p","q","r","s","t","u","v","w","x","y","z">>

LowerChar(c) ==
  IF \E i \in DOMAIN UpperLetters : UpperLetters[i] = c
  THEN LowerLetters[CHOOSE i \in DOMAIN UpperLetters : UpperLetters[i] = c]
  ELSE c

UpperChar(c) ==
  IF \E i \in DOMAIN LowerLetters : LowerLetters[i] = c
  THEN UpperLetters[CHOOSE i \in DOMAIN LowerLetters : LowerLetters[i] = c]
  ELSE c

\* str.lower()
Lower(s) == [i \in DOMAIN s |-> LowerChar(s[i])]

\* str.upper()
Upper(s) == [i \in DOMAIN s |-> UpperChar(s[i])]

IsSpace(c) == c = " "

RECURSIVE LStrip(_)
LStrip(s) == IF s # <<>> /\ IsSpace(s[1]) THEN LStrip(Tail(s)) ELSE s

RECURSIVE RStrip(_)
RStrip(s) ==
  IF s # <<>> /\ IsSpace(s[Len(s)]) THEN RStrip(SubSeq(s, 1, Len(s) - 1)) ELSE s

\* str.strip()
Strip(s) == RStrip(LStrip(s))

\* pat in x
InText(pat, x) ==
  \E off \in 0..(Len(x) - Len(pat)) : SubSeq(x, off + 1, off + Len(pat)) = pat

\* Series.str.contains(pat, case=True, regex=False) for one cell: the
\* behaviour a case-sensitive comparison would have.
StrContainsCaseSensitive(x, pat) == InText(pat, x)

\* Series.str.contains(pat, case=False, na=False, regex=False) for one
\* cell: pandas upper-cases both sides and tests containment.
StrContains(x, pat) == InText(Upper(pat), Upper(x))

(* ------------------------- float(user input) --------------------------- *)

DigitChars == <<"0","1","2","3","4","5","6","7","8","9">>

IsDigit(c) == \E i \in DOMAIN DigitChars : DigitChars[i] = c

DigitVal(c) == (CHOOSE i \in DOMAIN DigitChars : DigitChars[i] = c) - 1

RECURSIVE DigitsVal(_)
DigitsVal(s) ==
  IF s = <<>> THEN 0
  ELSE DigitsVal(SubSeq(s, 1, Len(s) - 1)) * 10 + DigitVal(s[Len(s)])

RECURSIVE Pow10(_)
Pow10(n) == IF n = 0 THEN 1 ELSE 10 * Pow10(n - 1)

\* float(s) on a decimal literal: surrounding blanks are ignored, then an
\* optional sign, digits and at most one point, with at least one digit.
\* [ok |-> FALSE] stands for ValueError.
ParseFloat(s) ==
  LET t    == Strip(s)
      sgn  == t # <<>> /\ t[1] \in {"-", "+"}
      body == IF sgn THEN Tail(t) ELSE t
      dots == {i \in DOMAIN body : body[i] = "."}
      good == /\ body # <<>>
              /\ Cardinality(dots) <= 1
              /\ \A i \in DOMAIN body : i \in dots \/ IsDigit(body[i])
              /\ \E i \in DOMAIN body : IsDigit(body[i])
  IN IF ~good THEN [ok |-> FALSE, val |-> <<0, 1>>]
     ELSE LET p    == IF dots = {} THEN Len(body) + 1 ELSE CHOOSE i \in dots : TRUE
              ip   == SubSeq(body, 1, p - 1)
              fp   == SubSeq(body, p + 1, Len(body))
              mag  == DigitsVal(ip \o fp)
              sval == IF sgn /\ t[1] = "-" THEN -mag ELSE mag
          IN [ok |-> TRUE, val |-> Rat(sval, Pow10(Len(fp)))]


(* ------------------------ startup (lines 16-96) ------------------------ *)

\* The CSV load succeeded: every failure of the load exits the process
\* before the application is created.
data_load_success == TRUE

\* Cleaned rows the dataset is drawn from: numeric LAT / LON, Disease a
\* string (NaN already replaced by the empty string).
RowPool ==
  { [LAT |-> <<10, 1>>, LON |-> <<20, 1>>, Disease |-> <<"F","l","u">>],
    [LAT |-> <<12, 1>>, LON |-> <<22, 1>>,
     Disease |-> <<"s","w","i","n","e"," ","f","l","u">>],
    [LAT |-> <<13, 1>>, LON |-> <<77, 1>>,
     Disease |-> <<"M","a","l","a","r","i","a">>],
    [LAT |-> <<-5, 1>>, LON |-> <<61, 2>>, Disease |-> <<>>] }

Datasets == UNION {[1..n -> RowPool] : n \in 0..MaxRows}

(* ---------------------------- requests --------------------------------- *)

\* Submitted disease_name values (a missing field reads as the empty text).
TermSet ==
  { <<>>, <<" ">>, <<" "," ">>,
    <<"f","l","u">>, <<"F","L","U">>, <<" ","F","l","u"," ">>,
    <<"u">>, <<"m","a">>, <<"e"," ","f">>, <<"z","z">> }

\* Submitted user_lat values: field missing, empty, blank, non-numeric, valid.
LatSet ==
  { NoneVal, Str(<<>>), Str(<<" ">>), Str(<<"a","b","c">>),
    Str(<<"1","2",".","0">>) }

\* Submitted user_lon values.
LonSet ==
  { NoneVal, Str(<<>>), Str(<<"1","2",".","3",".","4">>),
    Str(<<"7","7",".","5">>) }

Forms == [disease_name : TermSet, user_lat : LatSet, user_lon : LonSet]

\* Truthiness of a form field: None and the empty text are falsy.
FieldGiven(x) == x.t = "str" /\ x.v # <<>>

(* ------------------- outcomes of one directions call ------------------- *)

Exc(type, msg) == [t |-> "exc", type |-> type, msg |-> msg]

GoodRoute(secs, metres) ==
  Dict([duration |-> Num(secs), distance |-> Num(metres), geometry |-> Str("enc")])

Response(status, json) == [kind |-> "response", status |-> status, json |-> json]

Raised(e) == [kind |-> "raise", exc |-> e]

\* a route: the ordinary success
OkRoute ==
  Response(200, Dict([code |-> Str("Ok"),
                      routes |-> List(<<GoodRoute(<<125, 1>>, <<4200, 1>>)>>)]))

\* a route of more than an hour, with fractional seconds
LongRoute ==
  Response(200, Dict([code |-> Str("Ok"),
                      routes |-> List(<<GoodRoute(<<7801, 2>>, <<61237, 1>>)>>)]))

\* a route that carries neither duration, distance nor geometry
BareRoute ==
  Response(200, Dict([code |-> Str("Ok"),
                      routes |-> List(<<Dict([weight |-> Num(<<1, 1>>)])>>)]))

\* a route whose distance is not a number: formatting raises after the
\* time text was stored
BadDistanceRoute ==
  Response(200, Dict([code |-> Str("Ok"),
                      routes |-> List(<<Dict([duration |-> Num(<<125, 1>>),
                                              distance |-> Str("far"),
                                              geometry |-> Str("enc")])>>)]))

\* no route, result code NoRoute
NoRouteCode == Response(200, Dict([code |-> Str("NoRoute"), routes |-> List(<<>>)]))

\* no route although the code is Ok
OkNoRoute == Response(200, Dict([code |-> Str("Ok"), routes |-> List(<<>>)]))

\* a result code other than Ok together with a route
CodeWithRoute ==
  Response(200, Dict([code |-> Str("NoSegment"),
                      routes |-> List(<<GoodRoute(<<125, 1>>, <<4200, 1>>)>>)]))

\* an empty body
EmptyBody == Response(200, Dict(<<>>))

\* an HTTP error status: raise_for_status() raises
HttpError == Response(422, Dict([code |-> Str("InvalidInput")]))

\* the client raises its API error
ApiRaise == Raised(Exc("MapboxAPIError", "rate limit"))

\* the transport raises
ConnRaise == Raised(Exc("ConnectionError", "timed out"))

\* What one directions call can come back with.
Outcomes ==
  { OkRoute, LongRoute, BareRoute, BadDistanceRoute, NoRouteCode, OkNoRoute,
    CodeWithRoute, EmptyBody, HttpError, ApiRaise, ConnRaise }

(* ------------------ route enrichment (lines 164-247) ------------------- *)

\* lines 169-176
InitialInfo(row) ==
  [lat |-> row.LAT, lon |-> row.LON, disease_info |-> row.Disease,
   travel_time_text |-> "Calculating...",
   travel_distance_text |-> "Calculating...",
   route_geometry_encoded |-> NoneVal]

\* lines 252-259
PlainInfo(row) ==
  [lat |-> row.LAT, lon |-> row.LON, disease_info |-> row.Disease,
   travel_time_text |-> "Requires Location",
   travel_distance_text |-> "Requires Location",
   route_geometry_encoded |-> NoneVal]

\* lines 206-212 with the hour form chosen for hours >= 0
FormatTimeAlwaysHours(d) ==
  LET minutes == d[1] \div (d[2] * 60)
      hours == minutes \div 60
      remaining_minutes == minutes % 60
  IN IF hours >= 0
     THEN ToString(hours) \o " hr " \o ToString(remaining_minutes) \o " min (driving)"
     ELSE ToString(minutes) \o " min (driving)"

\* lines 206-212: d is the duration in seconds, a rational
FormatTime(d) ==
  LET minutes == d[1] \div (d[2] * 60)
      hours == minutes \div 60
      remaining_minutes == minutes % 60
  IN IF hours > 0
     THEN ToString(hours) \o " hr " \o ToString(remaining_minutes) \o " min (driving)"
     ELSE ToString(minutes) \o " min (driving)"

\* lines 218-219: f"{metres / 1000:.2f} km (driving)", for a distance that
\* does not lie exactly between two hundredths of a kilometre
FormatDistance(m) ==
  LET hundredths == (2 * m[1] + 10 * m[2]) \div (20 * m[2])
      frac == hundredths % 100
  IN ToString(hundredths \div 100) \o "." \o
     (IF frac < 10 THEN "0" ELSE "") \o ToString(frac) \o " km (driving)"

Done(info) == [info |-> info, exc |-> NoneVal]

Throw(info, e) == [info |-> info, exc |-> e]

\* lines 198-223 with the geometry stored before the texts are formatted
FormatRouteGeometryFirst(info, route) ==
  LET duration_seconds == Get(route, "duration", NoneVal)
      distance_meters == Get(route, "distance", NoneVal)
      route_geometry_encoded == Get(route, "geometry", NoneVal)
      info0 == [info EXCEPT !.route_geometry_encoded = route_geometry_encoded]
  IN IF ~IsNone(duration_seconds) /\ duration_seconds.t # "num"
     THEN Throw(info0, Exc("TypeError", "unsupported operand type(s) for //"))
     ELSE LET info1 == [info0 EXCEPT !.travel_time_text =
                          IF IsNone(duration_seconds) THEN "Time N/A"
                          ELSE FormatTime(duration_seconds.v)]
          IN IF ~IsNone(distance_meters) /\ distance_meters.t # "num"
             THEN Throw(info1, Exc("TypeError", "unsupported operand type(s) for /"))
             ELSE Done([info1 EXCEPT !.travel_distance_text =
                          IF IsNone(distance_meters) THEN "Distance N/A"
                          ELSE FormatDistance(distance_meters.v)])

\* lines 198-223: the first route is formatted; an operand that is not a
\* number raises TypeError, leaving what was already stored in place
FormatRoute(info, route) ==
  LET duration_seconds == Get(route, "duration", NoneVal)
      distance_meters == Get(route, "distance", NoneVal)
      route_geometry_encoded == Get(route, "geometry", NoneVal)
  IN IF ~IsNone(duration_seconds) /\ duration_seconds.t # "num"
     THEN Throw(info, Exc("TypeError", "unsupported operand type(s) for //"))
     ELSE LET info1 == [info EXCEPT !.travel_time_text =
                          IF IsNone(duration_seconds) THEN "Time N/A"
                          ELSE FormatTime(duration_seconds.v)]
          IN IF ~IsNone(distance_meters) /\ distance_meters.t # "num"
             THEN Throw(info1, Exc("TypeError", "unsupported operand type(s) for /"))
             ELSE LET info2 == [info1 EXCEPT !.travel_distance_text =
                                  IF IsNone(distance_meters) THEN "Distance N/A"
                                  ELSE FormatDistance(distance_meters.v)]
                  IN Done([info2 EXCEPT !.route_geometry_encoded =
                                          route_geometry_encoded])

\* lines 187-236: the body of the try statement
TryBody(info, o) ==
  IF o.kind = "raise" THEN Throw(info, o.exc)
  ELSE IF o.status >= 400
  THEN Throw(info, Exc("HTTPError", ToString(o.status) \o " Client Error"))
  ELSE LET directions_result == o.json
           routes == Get(directions_result, "routes", NoneVal)
           code == Get(directions_result, "code", NoneVal)
       IN IF Truthy(directions_result) /\ Truthy(routes)
          THEN FormatRoute(info, routes.v[1])
          ELSE IF Truthy(directions_result) /\ code # Str("Ok")
          THEN LET error_code ==
                     Get(directions_result, "code", Str("Unknown API Error"))
               IN Done([info EXCEPT
                     !.travel_time_text = "API Error: " \o PyStr(error_code),
                     !.travel_distance_text = "API Error: " \o PyStr(error_code)])
          ELSE Done([info EXCEPT !.travel_time_text = "Route not found",
                                 !.travel_distance_text = "Route not found"])

\* lines 238-245 without the clause for Exception: only MapboxAPIError is
\* handled, every other exception leaves the handler
CatchRowApiErrorOnly(r) ==
  IF IsNone(r.exc) THEN [propagated |-> FALSE, info |-> r.info]
  ELSE IF r.exc.type = "MapboxAPIError"
  THEN [propagated |-> FALSE,
        info |-> [r.info EXCEPT !.travel_time_text = "API Error: " \o r.exc.msg,
                                !.travel_distance_text = "API Error: " \o r.exc.msg]]
  ELSE [propagated |-> TRUE, info |-> r.info]

\* lines 238-245: the except clauses
CatchRow(r) ==
  IF IsNone(r.exc) THEN [propagated |-> FALSE, info |-> r.info]
  ELSE IF r.exc.type = "MapboxAPIError"
  THEN [propagated |-> FALSE,
        info |-> [r.info EXCEPT !.travel_time_text = "API Error: " \o r.exc.msg,
                                !.travel_distance_text = "API Error: " \o r.exc.msg]]
  ELSE [propagated |-> FALSE,
        info |-> [r.info EXCEPT !.travel_time_text = "Error: " \o r.exc.msg,
                                !.travel_distance_text = "Error: " \o r.exc.msg]]

(* ------------------- request parsing and filtering --------------------- *)

\* lines 110-119: [lon, lat] and zoom before the request is looked at
InitialView(df) ==
  IF data_load_success /\ df # <<>>
  THEN [center |-> <<Mean([i \in DOMAIN df |-> df[i].LON]),
                     Mean([i \in DOMAIN df |-> df[i].LAT])>>,
        zoom |-> 10]
  ELSE [center |-> <<(<<770267093, 10000000>>), (<<110285484, 10000000>>)>>,
        zoom |-> 12]

\* lines 133-147 where the ValueError handler leaves the variables as they are
ParseUserLocationNoReset(lat_str, lon_str) ==
  LET lat == IF FieldGiven(lat_str) THEN ParseFloat(lat_str.v)
             ELSE [ok |-> TRUE, val |-> <<0, 1>>]
      lon == IF FieldGiven(lon_str) THEN ParseFloat(lon_str.v)
             ELSE [ok |-> TRUE, val |-> <<0, 1>>]
  IN IF ~lat.ok THEN [user_lat |-> NoneVal, user_lon |-> NoneVal]
     ELSE [user_lat |-> IF FieldGiven(lat_str) THEN Num(lat.val) ELSE NoneVal,
           user_lon |-> IF FieldGiven(lon_str) /\ lon.ok THEN Num(lon.val)
                        ELSE NoneVal]

\* lines 133-147: float() of each field that was given; a ValueError from
\* either resets both coordinates
ParseUserLocation(lat_str, lon_str) ==
  LET lat == IF FieldGiven(lat_str) THEN ParseFloat(lat_str.v)
             ELSE [ok |-> TRUE, val |-> <<0, 1>>]
      lon == IF FieldGiven(lon_str) THEN ParseFloat(lon_str.v)
             ELSE [ok |-> TRUE, val |-> <<0, 1>>]
  IN IF ~lat.ok \/ ~lon.ok THEN [user_lat |-> NoneVal, user_lon |-> NoneVal]
     ELSE [user_lat |-> IF FieldGiven(lat_str) THEN Num(lat.val) ELSE NoneVal,
           user_lon |-> IF FieldGiven(lon_str) THEN Num(lon.val) ELSE NoneVal]

\* line 136: user_lat is not None and user_lon is not None
LocationReceived(lat, lon) == ~IsNone(lat) /\ ~IsNone(lon)

\* line 160 with "or" in place of "and"
HasOriginEither(lat, lon) == ~IsNone(lat) \/ ~IsNone(lon)

\* line 160: user_lat is not None and user_lon is not None
HasOrigin(lat, lon) == ~IsNone(lat) /\ ~IsNone(lon)

\* line 150 without the test of the search term
ShouldFilterAnyTerm(search_disease_lower, df) ==
  data_load_success /\ df # <<>>

\* line 150
ShouldFilter(search_disease_lower, df) ==
  search_disease_lower # <<>> /\ data_load_success /\ df # <<>>

\* lines 152-154: boolean-mask selection keeps the rows in load order
FilterRows(df, search_disease_lower) ==
  SelectSeq(df, LAMBDA row : StrContains(row.Disease, search_disease_lower))

\* line 269 without the test of the user location
NeedsRecenterAlways(found, lat, lon) == found # <<>>

\* line 269
NeedsRecenter(found, lat, lon) == found # <<>> /\ (IsNone(lat) \/ IsNone(lon))

\* lines 271-273
ResultsCenter(found) ==
  <<Mean([i \in DOMAIN found |-> found[i].lon]),
    Mean([i \in DOMAIN found |-> found[i].lat])>>

(* ----------------------------- actions --------------------------------- *)

Init ==
  /\ csv_data_df \in Datasets
  /\ pc = "idle"
  /\ method = "none"
  /\ form = [disease_name |-> <<>>, user_lat |-> NoneVal, user_lon |-> NoneVal]
  /\ search_disease = NoneVal
  /\ user_lat = NoneVal
  /\ user_lon = NoneVal
  /\ filtered_df = <<>>
  /\ found_locations = <<>>
  /\ map_center = InitialView(<<>>).center
  /\ map_zoom = InitialView(<<>>).zoom
  /\ calls = 0
  /\ outcomes = <<>>

\* A GET request: lines 102-123, then 280-289.
HandleGet ==
  /\ pc = "idle"
  /\ pc' = "done"
  /\ method' = "GET"
  /\ map_center' = InitialView(csv_data_df).center
  /\ map_zoom' = InitialView(csv_data_df).zoom
  /\ UNCHANGED <<csv_data_df, form, search_disease, user_lat, user_lon,
                 filtered_df, found_locations, calls, outcomes>>

\* A POST request up to the start of the loops: lines 102-162.
BeginPost ==
  /\ pc = "idle"
  /\ \E f \in Forms :
       LET term == Strip(f.disease_name)
           search_disease_lower == Lower(term)
           loc == ParseUserLocation(f.user_lat, f.user_lon)
           received == LocationReceived(loc.user_lat, loc.user_lon)
           origin == HasOrigin(loc.user_lat, loc.user_lon)
           entered == ShouldFilter(search_disease_lower, csv_data_df)
           matches == IF entered THEN FilterRows(csv_data_df, search_disease_lower)
                      ELSE <<>>
       IN /\ method' = "POST"
          /\ form' = f
          /\ search_disease' = Str(term)
          /\ user_lat' = loc.user_lat
          /\ user_lon' = loc.user_lon
          /\ map_center' = IF received THEN <<loc.user_lon.v, loc.user_lat.v>>
                           ELSE InitialView(csv_data_df).center
          /\ map_zoom' = IF received THEN 13 ELSE InitialView(csv_data_df).zoom
          /\ filtered_df' = matches
          /\ pc' = IF ~entered THEN "done"
                   ELSE IF matches = <<>> THEN "compose"
                   ELSE IF origin THEN "route" ELSE "plain"
  /\ UNCHANGED <<csv_data_df, found_locations, calls, outcomes>>

\* One iteration of the routing loop, lines 164-247: one directions request
\* is issued and its outcome handled.
RouteRow ==
  /\ pc = "route"
  /\ \E o \in Outcomes :
       LET row == filtered_df[Len(found_locations) + 1]
           r == CatchRow(TryBody(InitialInfo(row), o))
       IN /\ calls' = calls + 1
          /\ outcomes' = Append(outcomes, o)
          /\ IF r.propagated
             THEN /\ pc' = "failed"
                  /\ UNCHANGED found_locations
             ELSE /\ found_locations' = Append(found_locations, r.info)
                  /\ pc' = IF Len(found_locations) + 1 = Len(filtered_df)
                           THEN "compose" ELSE "route"
  /\ UNCHANGED <<csv_data_df, method, form, search_disease, user_lat, user_lon,
                 filtered_df, map_center, map_zoom>>

\* The loop without a user location, lines 251-264.
PlainRows ==
  /\ pc = "plain"
  /\ found_locations' = [i \in DOMAIN filtered_df |-> PlainInfo(filtered_df[i])]
  /\ pc' = "compose"
  /\ UNCHANGED <<csv_data_df, method, form, search_disease, user_lat, user_lon,
                 filtered_df, map_center, map_zoom, calls, outcomes>>

\* Lines 267-289: the centre moves to the results when there is no user
\* location, and the response is rendered.
Recenter ==
  /\ pc = "compose"
  /\ pc' = "done"
  /\ IF NeedsRecenter(found_locations, user_lat, user_lon)
     THEN /\ map_center' = ResultsCenter(found_locations)
          /\ map_zoom' = 13
     ELSE UNCHANGED <<map_center, map_zoom>>
  /\ UNCHANGED <<csv_data_df, method, form, search_disease, user_lat, user_lon,
                 filtered_df, found_locations, calls, outcomes>>

Next == HandleGet \/ BeginPost \/ RouteRow \/ PlainRows \/ Recenter

Spec == Init /\ [][Next]_vars

(* -------------------- duration formatting alone ------------------------ *)

\* One request with a user location and one matching row, whose directions
\* call returns a route of k / TicksPerSecond seconds.
InitFormat ==
  /\ csv_data_df = <<CHOOSE r \in RowPool : r.Disease = <<"F","l","u">> >>
  /\ pc = "format"
  /\ method = "POST"
  /\ form = [disease_name |-> <<"f","l","u">>,
             user_lat |-> Str(<<"1","2",".","0">>),
             user_lon |-> Str(<<"7","7",".","5">>)]
  /\ search_disease = Str(<<"f","l","u">>)
  /\ user_lat = Num(<<12, 1>>)
  /\ user_lon = Num(<<155, 2>>)
  /\ filtered_df = csv_data_df
  /\ found_locations = <<>>
  /\ map_center = <<(<<155, 2>>), (<<12, 1>>)>>
  /\ map_zoom = 13
  /\ calls = 0
  /\ \E k \in 0..MaxDurationTicks :
       outcomes = <<Response(200, Dict([code |-> Str("Ok"),
                      routes |-> List(<<GoodRoute(<<k, TicksPerSecond>>,
                                                  <<4200, 1>>)>>)]))>>

\* The loop iteration of lines 164-247 on that outcome.
FormatStep ==
  /\ pc = "format"
  /\ pc' = "formatted"
  /\ calls' = calls + 1
  /\ found_locations' =
       <<CatchRow(TryBody(InitialInfo(filtered_df[1]), outcomes[1])).info>>
  /\ UNCHANGED <<csv_data_df, method, form, search_disease, user_lat, user_lon,
                 filtered_df, map_center, map_zoom, outcomes>>

NextFormat == FormatStep

FormatSpec == InitFormat /\ [][NextFormat]_vars

(* ======================== properties ================================== *)

\* A form field that holds a decimal number / that is given but is no number.
Numeric(x) == FieldGiven(x) /\ ParseFloat(x.v).ok

NonNumeric(x) == FieldGiven(x) /\ ~ParseFloat(x.v).ok

\* The request supplied a valid pair of user coordinates.
OriginSupplied == method = "POST" /\ Numeric(form.user_lat) /\ Numeric(form.user_lon)

Blank(s) == \A i \in DOMAIN s : s[i] = " "

\* The submitted term without the blanks around it.
Trimmed(s) ==
  IF Blank(s) THEN <<>>
  ELSE LET a == CHOOSE i \in DOMAIN s : s[i] # " " /\ \A j \in 1..(i - 1) : s[j] = " "
           b == CHOOSE i \in DOMAIN s : s[i] # " " /\ \A j \in (i + 1)..Len(s) : s[j] = " "
       IN [i \in 1..(b - a + 1) |-> s[a + i - 1]]

\* x contains t as a substring, letters compared ignoring case.
ContainsIgnoringCase(x, t) ==
  \E off \in 0..(Len(x) - Len(t)) :
     \A i \in 1..Len(t) : LowerChar(x[off + i]) = LowerChar(t[i])

\* The dataset rows that match the submitted term, in load order.
ExpectedMatches ==
  SelectSeq(csv_data_df,
            LAMBDA row : ContainsIgnoringCase(row.Disease, Trimmed(form.disease_name)))

RowOf(info) == [LAT |-> info.lat, LON |-> info.lon, Disease |-> info.disease_info]

TextsOf(info) == <<info.travel_time_text, info.travel_distance_text>>

\* The texts each outcome of a directions call is to produce, written out.
OwnTexts(o) ==
  CASE o = OkRoute          -> <<"2 min (driving)", "4.20 km (driving)">>
    [] o = LongRoute        -> <<"1 hr 5 min (driving)", "61.24 km (driving)">>
    [] o = BareRoute        -> <<"Time N/A", "Distance N/A">>
    [] o = BadDistanceRoute -> <<"Error: unsupported operand type(s) for /",
                                 "Error: unsupported operand type(s) for /">>
    [] o = NoRouteCode      -> <<"API Error: NoRoute", "API Error: NoRoute">>
    [] o = OkNoRoute        -> <<"Route not found", "Route not found">>
    [] o = CodeWithRoute    -> <<"2 min (driving)", "4.20 km (driving)">>
    [] o = EmptyBody        -> <<"Route not found", "Route not found">>
    [] o = HttpError        -> <<"Error: 422 Client Error", "Error: 422 Client Error">>
    [] o = ApiRaise         -> <<"API Error: rate limit", "API Error: rate limit">>
    [] o = ConnRaise        -> <<"Error: timed out", "Error: timed out">>

\* The mean coordinate [lon, lat] of the dataset and of the results.
DatasetCenter ==
  <<RatDivInt(RatSum([i \in DOMAIN csv_data_df |-> csv_data_df[i].LON]), Len(csv_data_df)),
    RatDivInt(RatSum([i \in DOMAIN csv_data_df |-> csv_data_df[i].LAT]), Len(csv_data_df))>>

FoundCenter ==
  <<RatDivInt(RatSum([i \in DOMAIN found_locations |-> found_locations[i].lon]),
              Len(found_locations)),
    RatDivInt(RatSum([i \in DOMAIN found_locations |-> found_locations[i].lat]),
              Len(found_locations))>>

UserCenter == <<ParseFloat(form.user_lon.v).val, ParseFloat(form.user_lat.v).val>>

DefaultCenter == <<(<<770267093, 10000000>>), (<<110285484, 10000000>>)>>

\* The centre the rules for a request without a user location give.
NoLocationCenter ==
  IF found_locations # <<>> THEN FoundCenter
  ELSE IF csv_data_df # <<>> THEN DatasetCenter
  ELSE DefaultCenter

\* C1: a POST with a valid user location never fails on a directions
\* outcome; every result produced so far belongs to the match at the same
\* position and carries the texts of its own call's outcome, and the
\* finished response holds exactly one result per matching row.
ThmC1_RowIsolation ==
  /\ pc # "failed"
  /\ (OriginSupplied /\ ~Blank(form.disease_name)) =>
       /\ Len(found_locations) = Len(outcomes)
       /\ Len(found_locations) <= Len(ExpectedMatches)
       /\ \A i \in DOMAIN found_locations :
            /\ RowOf(found_locations[i]) = ExpectedMatches[i]
            /\ TextsOf(found_locations[i]) = OwnTexts(outcomes[i])
       /\ pc = "done" => Len(found_locations) = Len(ExpectedMatches)

\* C1 witness: two matches, the first call raised and the second returned
\* a route; the response carries both results.
WitC1_OneFailsOtherComputed ==
  /\ pc = "done"
  /\ OriginSupplied
  /\ Len(found_locations) = 2
  /\ outcomes = <<ConnRaise, OkRoute>>
  /\ TextsOf(found_locations[1]) = <<"Error: timed out", "Error: timed out">>
  /\ TextsOf(found_locations[2]) = <<"2 min (driving)", "4.20 km (driving)">>

\* C2: on a POST without a valid pair of user coordinates no directions
\* request is issued, every result carries "Requires Location" twice and no
\* geometry, and the finished response has one such result per match.
ThmC2_NoOriginNoCalls ==
  (method = "POST" /\ ~OriginSupplied) =>
     /\ calls = 0
     /\ outcomes = <<>>
     /\ \A i \in DOMAIN found_locations :
          /\ TextsOf(found_locations[i]) = <<"Requires Location", "Requires Location">>
          /\ IsNone(found_locations[i].route_geometry_encoded)
     /\ (pc = "done" /\ ~Blank(form.disease_name)) =>
          Len(found_locations) = Len(ExpectedMatches)

\* C2 witness: only the latitude was supplied and two rows matched.
WitC2_OnlyLatitude ==
  /\ pc = "done"
  /\ method = "POST"
  /\ Numeric(form.user_lat)
  /\ ~FieldGiven(form.user_lon)
  /\ Len(found_locations) = 2
  /\ calls = 0

\* C3: the centre of a finished response is the user's [lon, lat] when a
\* valid pair was supplied, else the mean of the results when there are
\* any, else the mean of the dataset when it is not empty, else the default.
ThmC3_CenterPriority ==
  pc = "done" =>
     map_center = IF OriginSupplied THEN UserCenter
                  ELSE IF found_locations # <<>> THEN FoundCenter
                  ELSE IF csv_data_df # <<>> THEN DatasetCenter
                  ELSE DefaultCenter

\* C3 witness: user coordinates (12.0, 77.5) with two results elsewhere;
\* the centre is [77.5, 12.0].
WitC3_UserOverResults ==
  /\ pc = "done"
  /\ OriginSupplied
  /\ Len(found_locations) = 2
  /\ map_center = <<(<<155, 2>>), (<<12, 1>>)>>
  /\ FoundCenter = <<(<<21, 1>>), (<<11, 1>>)>>

\* C4: a POST whose term is empty or blank has no results, issues no
\* directions request, and is centred on the user location when a valid one
\* was supplied and else as before any search.
ThmC4_BlankTerm ==
  (method = "POST" /\ Blank(form.disease_name)) =>
     /\ found_locations = <<>>
     /\ calls = 0
     /\ pc \in {"done"}
     /\ map_center = IF OriginSupplied THEN UserCenter
                     ELSE IF csv_data_df # <<>> THEN DatasetCenter
                     ELSE DefaultCenter

\* C4 witness: a blank term with a valid user location over two rows.
WitC4_BlankTermWithLocation ==
  /\ pc = "done"
  /\ method = "POST"
  /\ form.disease_name = <<" ", " ">>
  /\ OriginSupplied
  /\ Len(csv_data_df) = 2
  /\ found_locations = <<>>

\* C5 as claimed: a row whose parsed response reports a code other than
\* "Ok", or holds no route, carries "Route not found" or "API Error: <code>"
\* as both texts and no geometry.
CexC5_NonOkCodeIsPlaceholder ==
  \A i \in DOMAIN found_locations \cap DOMAIN outcomes :
     LET o == outcomes[i]
         body == o.json
         code == Get(body, "code", NoneVal)
         routes == Get(body, "routes", List(<<>>))
     IN (o.kind = "response" /\ o.status = 200
         /\ (routes.v = <<>> \/ (code # NoneVal /\ code # Str("Ok")))) =>
          /\ TextsOf(found_locations[i]) \in
               { <<"Route not found", "Route not found">>,
                 <<"API Error: " \o PyStr(code), "API Error: " \o PyStr(code)>> }
          /\ IsNone(found_locations[i].route_geometry_encoded)

\* C6 as claimed: with a non-numeric coordinate the response has no user
\* location, no directions request was issued, and the map is centred on
\* the mean of the dataset.
CexC6_DatasetMeanCenter ==
  (pc = "done" /\ method = "POST" /\ csv_data_df # <<>>
   /\ (NonNumeric(form.user_lat) \/ NonNumeric(form.user_lon))) =>
     /\ IsNone(user_lat) /\ IsNone(user_lon)
     /\ calls = 0
     /\ map_center = DatasetCenter

\* C6 amended: with a non-numeric coordinate the response has no user
\* location, no directions request was issued, and the map is centred by
\* the rules for a request without a location: the mean of the results when
\* there are any, else the mean of the dataset, else the default.
ThmC6_NonNumericFallsBack ==
  (method = "POST" /\ (NonNumeric(form.user_lat) \/ NonNumeric(form.user_lon))) =>
     /\ IsNone(user_lat) /\ IsNone(user_lon)
     /\ calls = 0
     /\ pc = "done" => map_center = NoLocationCenter

\* C6 witness: a valid latitude with a non-numeric longitude, one result;
\* the centre is that result, not the mean of the two dataset rows.
WitC6_ResultsCenter ==
  /\ pc = "done"
  /\ Numeric(form.user_lat)
  /\ NonNumeric(form.user_lon)
  /\ Len(csv_data_df) = 2
  /\ Len(found_locations) = 1
  /\ map_center = FoundCenter
  /\ map_center # DatasetCenter

\* C7: a returned duration of d = k / TicksPerSecond seconds is shown as
\* "H hr M min (driving)" with H = floor(d / 3600), M = floor(d / 60) mod 60
\* exactly when d >= 3600, and else as "M min (driving)" with
\* M = floor(d / 60); 125 s reads "2 min (driving)" and 3900 s reads
\* "1 hr 5 min (driving)".
ThmC7_DurationText ==
  pc = "formatted" =>
     LET k == outcomes[1].json.v.routes.v[1].v.duration.v[1]
         H == k \div (3600 * TicksPerSecond)
         M == k \div (60 * TicksPerSecond)
         text == found_locations[1].travel_time_text
     IN /\ k >= 3600 * TicksPerSecond =>
             text = ToString(H) \o " hr " \o ToString(M % 60) \o " min (driving)"
        /\ k < 3600 * TicksPerSecond => text = ToString(M) \o " min (driving)"
        /\ k = 125 * TicksPerSecond => text = "2 min (driving)"
        /\ k = 3900 * TicksPerSecond => text = "1 hr 5 min (driving)"

\* C7 witness: 3900 seconds was formatted as "1 hr 5 min (driving)".
WitC7_OneHourFive ==
  /\ pc = "formatted"
  /\ outcomes[1].json.v.routes.v[1].v.duration.v = <<3900 * TicksPerSecond, TicksPerSecond>>
  /\ found_locations[1].travel_time_text = "1 hr 5 min (driving)"

\* C8: for a term that is not blank the results of a finished POST are the
\* dataset rows whose disease text contains the term ignoring case, one
\* result per row, in load order, whether or not a location was supplied.
ThmC8_FilterIgnoringCase ==
  (pc = "done" /\ method = "POST" /\ ~Blank(form.disease_name)) =>
     /\ Len(found_locations) = Len(ExpectedMatches)
     /\ \A i \in DOMAIN found_locations :
          RowOf(found_locations[i]) = ExpectedMatches[i]

\* C8 witness: the term "FLU" over the rows "swine flu", "Flu" returns
\* both, in that order.
WitC8_UpperCaseTerm ==
  /\ pc = "done"
  /\ form.disease_name = <<"F", "L", "U">>
  /\ Len(found_locations) = 2
  /\ found_locations[1].disease_info = <<"s","w","i","n","e"," ","f","l","u">>
  /\ found_locations[2].disease_info = <<"F","l","u">>

\* C9 as claimed: in a finished response user_lat and user_lon are both
\* None or both numbers.
CexC9_BothOrNeither ==
  pc = "done" => (IsNone(user_lat) <=> IsNone(user_lon))

\* C10: a result has a geometry only if its call returned a route and both
\* texts come from the success branch; a row whose processing raised has an
\* error placeholder as both texts and no geometry; no result keeps
\* "Calculating...".
ThmC10_GeometryOnlyOnSuccess ==
  \A i \in DOMAIN found_locations :
     LET info == found_locations[i]
     IN /\ info.travel_time_text # "Calculating..."
        /\ info.travel_distance_text # "Calculating..."
        /\ ~IsNone(info.route_geometry_encoded) =>
             /\ i \in DOMAIN outcomes
             /\ outcomes[i].kind = "response"
             /\ Get(outcomes[i].json, "routes", List(<<>>)).v # <<>>
             /\ info.travel_time_text \in
                  {"2 min (driving)", "1 hr 5 min (driving)", "Time N/A"}
             /\ info.travel_distance_text \in
                  {"4.20 km (driving)", "61.24 km (driving)", "Distance N/A"}
        /\ (i \in DOMAIN outcomes
            /\ outcomes[i] \in {ApiRaise, ConnRaise, HttpError, BadDistanceRoute}) =>
             /\ info.travel_time_text = info.travel_distance_text
             /\ info.travel_time_text \in
                  {"API Error: rate limit", "Error: timed out",
                   "Error: 422 Client Error",
                   "Error: unsupported operand type(s) for /"}
             /\ IsNone(info.route_geometry_encoded)

\* C10 witness: a route whose formatting raised after the time text was
\* stored, next to a route that was formatted and kept its geometry.
WitC10_RaisedMidway ==
  /\ pc = "done"
  /\ outcomes = <<BadDistanceRoute, LongRoute>>
  /\ IsNone(found_locations[1].route_geometry_encoded)
  /\ found_locations[1].travel_time_text = "Error: unsupported operand type(s) for /"
  /\ found_locations[2].route_geometry_encoded = Str("enc")

=============================================================================
